---- MODULE Spec2Model ----
(***************************************************************************)
(* The trial / phase control loop of goal-guy-0.go (type Sim).             *)
(*                                                                         *)
(* The leabra network engine, the etable tensors and math/rand are         *)
(* libraries: every value the engine returns (unit activities, MSE,        *)
(* CosDiff) is an input drawn from a small set at the call that reads it;  *)
(* tensors are flat 0-based arrays held as 1-based sequences; the random   *)
(* generator is a deterministic function of one integer of state.          *)
(* Floats are exact: activities and errors are small integers and a        *)
(* quotient x / n is kept as the pair <<x, n>>.                            *)
(***************************************************************************)
EXTENDS Integers, Sequences, FiniteSets, TLC

\* ------------------------------------------------------------------ bounds
NumRows == 2    \* rows of the pattern table (25 in ConfigExtReps)
Cells == 2      \* units of a layer = cells of a table row (5 x 5 in the source)
MaxEpcs == 1    \* the value the user gave Sim.MaxEpcs
MaxInits == 2   \* Init calls followed in SpecStats (the sums carry over Init)

EpochCap == MaxEpcs + 1     \* Step Trial / Step Epoch are followed up to here
Seeds == {1, 2}             \* values NewRndSeed may leave in RndSeed

\* ----------------------------------------------------------------- vectors
Zeros == [i \in 1..Cells |-> 0]
\* activities are counted in halves: 2 is the activity 1.0, 1 is 0.5
OneHot(k) == [i \in 1..Cells |-> IF i = k THEN 2 ELSE 0]
NoVec == <<>>               \* a layer no external vector was applied to

\* the 2D cell of `row` in a flat column (etensor SubSpace(2, [row]))
SubSpace(col, r) == [i \in 1..Cells |-> col[r * Cells + i]]

\* tensor.SetFloat1D(idx, v), idx 0-based
SetFloat1D(col, idx, v) == [col EXCEPT ![idx + 1] = v]

\* for i := range vals { col.SetFloat1D(start+i, vals[i]) }
RECURSIVE WriteVals(_, _, _, _)
WriteVals(col, start, vals, i) ==
    IF i >= Len(vals) THEN col
    ELSE WriteVals(SetFloat1D(col, start + i, vals[i + 1]), start, vals, i + 1)

\* for j := 0; j < n; j++ { col.SetFloat1D(start+j, 0) }
RECURSIVE WriteZeros(_, _, _, _)
WriteZeros(col, start, n, j) ==
    IF j >= n THEN col
    ELSE WriteZeros(SetFloat1D(col, start + j, 0), start, n, j + 1)

\* ---------------------------------------------------------- pattern table
\* ConfigExtReps: Context and Outcome rows have units on, Goal and Motor none
AuthoredContext(r) == OneHot((r % Cells) + 1)
AuthoredOutcome(r) == OneHot(((r + 1) % Cells) + 1)

RowIds == 0..(NumRows - 1)

\* the flat column holding the cell rows[r] in row r
Column(rows) ==
    [i \in 1..(NumRows * Cells) |-> rows[(i - 1) \div Cells][((i - 1) % Cells) + 1]]

AuthoredExtReps ==
    [Context |-> Column([r \in RowIds |-> AuthoredContext(r)]),
     Goal |-> Column([r \in RowIds |-> Zeros]),
     Motor |-> Column([r \in RowIds |-> Zeros]),
     Outcome |-> Column([r \in RowIds |-> AuthoredOutcome(r)])]

\* etable.Table.NumRows()
NumRowsOf(et) == Len(et.Context) \div Cells

\* ------------------------------------------------------------ math/rand
\* one step of the generator, and the draw rand.Intn(k) made from a state
NextRnd(r) == (3 * r + 1) % 7
Intn(r, k) == r % k

\* rand.Seed(seed)
SeedRnd(seed) == seed % 7

Swap(p, i, j) == [p EXCEPT ![i + 1] = p[j + 1], ![j + 1] = p[i + 1]]

\* rand.Perm(n): for i := 0; i < n; i++ { j := Intn(i+1); m[i] = m[j]; m[j] = i }
\* returns <<permutation, generator state>>
RECURSIVE PermFrom(_, _, _, _)
PermFrom(m, i, n, r) ==
    IF i >= n THEN <<m, r>>
    ELSE LET j == Intn(r, i + 1)
             m1 == [m EXCEPT ![i + 1] = m[j + 1]]
             m2 == [m1 EXCEPT ![j + 1] = i]
         IN PermFrom(m2, i + 1, n, NextRnd(r))

RandPerm(n, r) == PermFrom([i \in 1..n |-> 0], 0, n, r)

\* erand.PermuteInts(ins) = rand.Shuffle:
\* for i := n-1; i > 0; i-- { j := Intn(i+1); swap(i, j) }
RECURSIVE ShuffleFrom(_, _, _)
ShuffleFrom(p, i, r) ==
    IF i <= 0 THEN <<p, r>>
    ELSE ShuffleFrom(Swap(p, i, Intn(r, i + 1)), i - 1, NextRnd(r))

PermuteInts(p, r) == ShuffleFrom(p, Len(p) - 1, r)

\* ------------------------------------------------------------ epoch log
Div(x, n) == <<x, n>>               \* float32(x) / float32(n)
OneMinus(q) == <<q[2] - q[1], q[2]>> \* 1 - q

\* equality of two quotients with nonzero denominators
SameQuot(p, q) == p[1] * q[2] = q[1] * p[2]

FloatZero == Div(0, 1)

ZeroLogRow ==
    [Epoch |-> 0, MotSSE |-> FloatZero, OutSSE |-> FloatZero,
     MotAvgSSE |-> FloatZero, OutAvgSSE |-> FloatZero,
     OutGoalPctErr |-> FloatZero, OutPredPctErr |-> FloatZero,
     OutGoalPctCor |-> FloatZero, OutPredPctCor |-> FloatZero,
     MotCosDiff |-> FloatZero, OutCosDiff |-> FloatZero,
     OutGoalCntErr |-> 0, OutPredCntErr |-> 0]

\* etable.Table.SetNumRows(n): keeps the rows below n, new rows are zero
SetNumRows(log, n) == [i \in 1..n |-> IF i <= Len(log) THEN log[i] ELSE ZeroLogRow]

\* ---------------------------------------------------------------- state
VARIABLES
    \* fields of Sim
    ExtReps, EpcLog, Epoch, Trial, AlphaCycle, Sequential, Test, StopNow,
    RndSeed, Porder,
    MotSumSSE, MotSumAvgSSE, MotSumCosDiff,
    OutSumSSE, OutSumAvgSSE, OutSumCosDiff,
    OutGoalCntErr, OutPredCntErr,
    \* the network: external vector and type of each layer, the number of
    \* units of the Goal layer (Outcome has Cells); math/rand's state
    ext, layTyp, nng, rnd,
    \* control of the thread that takes the step: the handler it runs, its
    \* position, and the locals of TrainTrial (row, msz, osz), TrainEpoch
    \* (curEpc) and Train (stEpc)
    run, pc, row, msz, osz, curEpc, stEpc,
    \* the same of the other thread (the window's event loop while the
    \* goroutine of `go ss.Train()` takes the steps, and the reverse)
    other,
    \* history, read by the properties only
    steps,      \* the steps the TrainTrial in progress has done, in order
    presented,  \* the rows presented since the last epoch boundary or Init
    capSz,      \* the lengths the last capture recorded: <<motor, outcome>>
    clamp0,     \* row -> the sub-phase-0 clamp of its trial before this one
    curClamp0,  \* the sub-phase-0 clamp of the trial in progress
    tally,      \* what the trials of the epoch in progress produced
    done,       \* per epoch logged since Init: its tally, and the sums as logged
    stopMid,    \* Stop arrived between the sub-phases of the trial in progress
    inits,      \* Init calls so far
    calls,      \* the engine calls of the last AlphaCyc of the trial in progress
    captured,   \* what the last capture read from the network
    statIn,     \* the last TrialStats call: its arguments, readings and effect
    sinceStop   \* trials Train entered since a Stop after its launch; -1: no Stop

accVars == <<MotSumSSE, MotSumAvgSSE, MotSumCosDiff,
             OutSumSSE, OutSumAvgSSE, OutSumCosDiff,
             OutGoalCntErr, OutPredCntErr>>
netVars == <<ext, layTyp, nng>>
schedVars == <<Epoch, Trial, Porder, rnd, EpcLog>>
localVars == <<row, msz, osz, curEpc, stEpc>>
histVars == <<steps, presented, capSz, clamp0, curClamp0, tally, done,
              stopMid, inits, calls, captured, statIn>>

vars == <<ExtReps, AlphaCycle, Sequential, Test, StopNow, RndSeed, accVars,
          netVars, schedVars, run, pc, localVars, other, histVars, sinceStop>>

Layers == {"Context", "Goal", "Motor", "Outcome"}
NoClamp == [l \in Layers |-> NoVec]
ZeroTally == [mot |-> 0, motAvg |-> 0, motCos |-> 0, out |-> 0, outAvg |-> 0,
              outCos |-> 0, goal |-> 0, pred |-> 0, n |-> 0]
NoRow == [r \in RowIds |-> NoVec]
NoRead == [mav |-> NoVec, errm |-> FALSE, oav |-> NoVec, erro |-> FALSE]
NoStat == [cyc |-> -1]

\* a thread that runs nothing
IdleThread == [run |-> "idle", pc |-> "idle", row |-> 0, msz |-> 0, osz |-> 0,
               curEpc |-> 0, stEpc |-> 0]

\* Sim.Init, as mainrun calls it on the new Sim and as the Init button does
SimInit ==
    LET np == NumRowsOf(ExtReps)
        pr == RandPerm(np, SeedRnd(RndSeed))
    IN /\ Epoch' = 0
       /\ Trial' = 0
       /\ StopNow' = FALSE
       /\ Porder' = pr[1]
       /\ rnd' = NextRnd(pr[2])     \* InitWts draws the new weights
       /\ EpcLog' = SetNumRows(EpcLog, 0)
       /\ UNCHANGED <<ExtReps, AlphaCycle, Sequential, Test, other, RndSeed, accVars, netVars>>

\* the state mainrun leaves (New, ConfigExtReps, Config, Init) when the
\* pattern table holds et after OpenExtReps and ConfigNet gave the Goal layer
\* n units
Built(et, n) ==
    /\ ExtReps = et
    /\ nng = n
    /\ EpcLog = <<>>
    /\ Epoch = 0 /\ Trial = 0 /\ AlphaCycle = 0
    /\ Sequential \in BOOLEAN
    /\ Test = FALSE
    /\ StopNow = FALSE
    /\ RndSeed = 1
    /\ Porder = RandPerm(NumRowsOf(et), SeedRnd(1))[1]
    /\ rnd = NextRnd(RandPerm(NumRowsOf(et), SeedRnd(1))[2])
    /\ MotSumSSE = 0 /\ MotSumAvgSSE = 0 /\ MotSumCosDiff = 0
    /\ OutSumSSE = 0 /\ OutSumAvgSSE = 0 /\ OutSumCosDiff = 0
    /\ OutGoalCntErr = 0 /\ OutPredCntErr = 0
    /\ ext = NoClamp
    /\ layTyp = [Context |-> "Input", Goal |-> "Hidden", Motor |-> "Hidden",
                 Outcome |-> "Target"]
    /\ run = "idle" /\ pc = "idle"
    /\ row = 0 /\ msz = 0 /\ osz = 0 /\ curEpc = 0 /\ stEpc = 0
    /\ other = IdleThread
    /\ steps = <<>> /\ presented = <<>> /\ capSz = <<0, 0>>
    /\ clamp0 = NoRow /\ curClamp0 = NoVec
    /\ tally = ZeroTally /\ done = <<>> /\ stopMid = FALSE /\ inits = 0
    /\ calls = <<>> /\ captured = NoRead /\ statIn = NoStat /\ sinceStop = -1

\* ConfigNet as written: Goal and Outcome are both 5x5, as large as a cell
Loaded(et) == Built(et, Cells)

\* the table ConfigExtReps authored was read back
Init == Loaded(AuthoredExtReps)

\* ---------------------------------------------------------------- AlphaCyc
CycPerQtr == 1      \* Time.CycPerQtr, the cycles of a quarter (25 by default)

\* one pass of the qtr loop: the cycles, then QuarterFinal
Quarter == [cyc \in 1..CycPerQtr |-> "Cycle"] \o <<"QuarterFinal">>

\* Sim.AlphaCyc(train): the calls it makes on the network, in order
AlphaCyc(train) ==
    <<"AlphaCycInit">> \o Quarter \o Quarter \o Quarter \o Quarter
        \o (IF train THEN <<"DWt", "WtFmDWt">> ELSE <<>>)

\* ------------------------------------------------------------ ApplyInputs
\* an ApplyInputs without the InitExt call: what was applied stays applied
ApplyInputsNoInitExt(et, r) ==
    CASE AlphaCycle = 0 ->
           /\ layTyp' = [layTyp EXCEPT !.Goal = "Hidden", !.Motor = "Hidden",
                                       !.Outcome = "Target"]
           /\ ext' = [ext EXCEPT !.Context = SubSpace(et.Context, r),
                                 !.Outcome = SubSpace(et.Outcome, r)]
      [] AlphaCycle = 1 ->
           /\ layTyp' = [layTyp EXCEPT !.Goal = "Input", !.Motor = "Target",
                                       !.Outcome = "Hidden"]
           /\ ext' = [ext EXCEPT !.Goal = SubSpace(et.Outcome, r),
                                 !.Motor = SubSpace(et.Motor, r)]
      [] OTHER ->
           /\ layTyp' = layTyp
           /\ ext' = ext

\* an ApplyInputs without g = o: Goal is clamped to the Goal cell of the row
ApplyInputsAuthoredGoal(et, r) ==
    CASE AlphaCycle = 0 ->
           /\ layTyp' = [layTyp EXCEPT !.Goal = "Hidden", !.Motor = "Hidden",
                                       !.Outcome = "Target"]
           /\ ext' = [NoClamp EXCEPT !.Context = SubSpace(et.Context, r),
                                     !.Outcome = SubSpace(et.Outcome, r)]
      [] AlphaCycle = 1 ->
           /\ layTyp' = [layTyp EXCEPT !.Goal = "Input", !.Motor = "Target",
                                       !.Outcome = "Hidden"]
           /\ ext' = [NoClamp EXCEPT !.Goal = SubSpace(et.Goal, r),
                                     !.Motor = SubSpace(et.Motor, r)]
      [] OTHER ->
           /\ layTyp' = layTyp
           /\ ext' = NoClamp

\* Sim.ApplyInputs(extreps, row): InitExt, then the clamps of the sub-phase
ApplyInputs(et, r) ==
    CASE AlphaCycle = 0 ->
           /\ layTyp' = [layTyp EXCEPT !.Goal = "Hidden", !.Motor = "Hidden",
                                       !.Outcome = "Target"]
           /\ ext' = [NoClamp EXCEPT !.Context = SubSpace(et.Context, r),
                                     !.Outcome = SubSpace(et.Outcome, r)]
      [] AlphaCycle = 1 ->
           /\ layTyp' = [layTyp EXCEPT !.Goal = "Input", !.Motor = "Target",
                                       !.Outcome = "Hidden"]
           \* g = o: Goal is clamped to the Outcome cell of the row
           /\ ext' = [NoClamp EXCEPT !.Goal = SubSpace(et.Outcome, r),
                                     !.Motor = SubSpace(et.Motor, r)]
      [] OTHER ->
           /\ layTyp' = layTyp
           /\ ext' = NoClamp

\* ------------------------------------------------------------- TrialStats
Tol == 1        \* tol := float32(0.5), in halves

Abs(d) == IF d < 0 THEN 0 - d ELSE d

\* oge: the squared Goal/Outcome ActM differences not below tol, summed over
\* the Goal units
RECURSIVE GoalOutErr(_, _, _)
GoalOutErr(g, o, ni) ==
    IF ni > Len(g) THEN 0
    ELSE LET d == g[ni] - o[ni]
         IN (IF Abs(d) < Tol THEN 0 ELSE d * d) + GoalOutErr(g, o, ni + 1)

\* the loop over the Goal units indexes the Outcome units with the same ni:
\* with more Goal than Outcome units outcomeLay.Neurons[ni] is out of range,
\* a run-time panic, after the sums of the call were added
UnitFault(g, o) == AlphaCycle = 0 /\ Len(g) > Len(o)

\* a TrialStats that counts every Goal unit off by tol or more
TrialStatsPerUnit(accum, m, g, o) ==
    CASE AlphaCycle = 0 ->
           /\ OutSumSSE' = IF accum THEN OutSumSSE + m.sse ELSE OutSumSSE
           /\ OutSumAvgSSE' = IF accum THEN OutSumAvgSSE + m.avg ELSE OutSumAvgSSE
           /\ OutSumCosDiff' = IF accum THEN OutSumCosDiff + m.cos ELSE OutSumCosDiff
           /\ OutPredCntErr' = IF accum /\ m.sse # 0 THEN OutPredCntErr + 1
                               ELSE OutPredCntErr
           /\ OutGoalCntErr' = OutGoalCntErr
                  + Cardinality({ni \in 1..Len(g) : Abs(g[ni] - o[ni]) >= Tol})
           /\ UNCHANGED <<MotSumSSE, MotSumAvgSSE, MotSumCosDiff>>
      [] AlphaCycle = 1 ->
           /\ MotSumSSE' = IF accum THEN MotSumSSE + m.sse ELSE MotSumSSE
           /\ MotSumAvgSSE' = IF accum THEN MotSumAvgSSE + m.avg ELSE MotSumAvgSSE
           /\ MotSumCosDiff' = IF accum THEN MotSumCosDiff + m.cos ELSE MotSumCosDiff
           /\ UNCHANGED <<OutSumSSE, OutSumAvgSSE, OutSumCosDiff,
                          OutGoalCntErr, OutPredCntErr>>
      [] OTHER -> UNCHANGED accVars

\* a TrialStats whose sub-phase 1 also adds its SSE to the outcome sum
TrialStatsMixed(accum, m, g, o) ==
    CASE AlphaCycle = 0 ->
           /\ OutSumSSE' = IF accum THEN OutSumSSE + m.sse ELSE OutSumSSE
           /\ OutSumAvgSSE' = IF accum THEN OutSumAvgSSE + m.avg ELSE OutSumAvgSSE
           /\ OutSumCosDiff' = IF accum THEN OutSumCosDiff + m.cos ELSE OutSumCosDiff
           /\ OutPredCntErr' = IF accum /\ m.sse # 0 THEN OutPredCntErr + 1
                               ELSE OutPredCntErr
           /\ OutGoalCntErr' = IF ~UnitFault(g, o) /\ GoalOutErr(g, o, 1) # 0
                               THEN OutGoalCntErr + 1
                               ELSE OutGoalCntErr
           /\ UNCHANGED <<MotSumSSE, MotSumAvgSSE, MotSumCosDiff>>
      [] AlphaCycle = 1 ->
           /\ MotSumSSE' = IF accum THEN MotSumSSE + m.sse ELSE MotSumSSE
           /\ MotSumAvgSSE' = IF accum THEN MotSumAvgSSE + m.avg ELSE MotSumAvgSSE
           /\ MotSumCosDiff' = IF accum THEN MotSumCosDiff + m.cos ELSE MotSumCosDiff
           /\ OutSumSSE' = IF accum THEN OutSumSSE + m.sse ELSE OutSumSSE
           /\ UNCHANGED <<OutSumAvgSSE, OutSumCosDiff, OutGoalCntErr, OutPredCntErr>>
      [] OTHER -> UNCHANGED accVars

\* Sim.TrialStats(accum). m is the (sse, avgsse, CosDiff.Cos) the engine gives
\* for the layer of the sub-phase, g and o the ActM of Goal and Outcome.
TrialStats(accum, m, g, o) ==
    CASE AlphaCycle = 0 ->
           /\ OutSumSSE' = IF accum THEN OutSumSSE + m.sse ELSE OutSumSSE
           /\ OutSumAvgSSE' = IF accum THEN OutSumAvgSSE + m.avg ELSE OutSumAvgSSE
           /\ OutSumCosDiff' = IF accum THEN OutSumCosDiff + m.cos ELSE OutSumCosDiff
           /\ OutPredCntErr' = IF accum /\ m.sse # 0 THEN OutPredCntErr + 1
                               ELSE OutPredCntErr
           /\ OutGoalCntErr' = IF ~UnitFault(g, o) /\ GoalOutErr(g, o, 1) # 0
                               THEN OutGoalCntErr + 1
                               ELSE OutGoalCntErr
           /\ UNCHANGED <<MotSumSSE, MotSumAvgSSE, MotSumCosDiff>>
      [] AlphaCycle = 1 ->
           /\ MotSumSSE' = IF accum THEN MotSumSSE + m.sse ELSE MotSumSSE
           /\ MotSumAvgSSE' = IF accum THEN MotSumAvgSSE + m.avg ELSE MotSumAvgSSE
           /\ MotSumCosDiff' = IF accum THEN MotSumCosDiff + m.cos ELSE MotSumCosDiff
           /\ UNCHANGED <<OutSumSSE, OutSumAvgSSE, OutSumCosDiff,
                          OutGoalCntErr, OutPredCntErr>>
      [] OTHER -> UNCHANGED accVars

\* --------------------------------------------------------------- LogEpoch
\* the row LogEpoch writes for epoch epc from the accumulators it is given;
\* the two count fields are written after the counters were set to 0
EpochRow(epc, a, np) ==
    LET EpcMotSSE == Div(a.mot, np)
        EpcOutSSE == Div(a.out, np)
        EpcMotAvgSSE == Div(a.motAvg, np)
        EpcOutAvgSSE == Div(a.outAvg, np)
        EpcOutGoalPctErr == Div(a.goal, np)
        EpcOutPredPctErr == Div(a.pred, np)
        OutGoalCntErrNow == 0
        OutPredCntErrNow == 0
        EpcOutGoalPctCor == OneMinus(EpcOutGoalPctErr)
        EpcOutPredPctCor == OneMinus(EpcOutPredPctErr)
        EpcMotCosDiff == Div(a.motCos, np)
        EpcOutCosDiff == Div(a.outCos, np)
    IN [Epoch |-> epc, MotSSE |-> EpcMotSSE, OutSSE |-> EpcOutSSE,
        MotAvgSSE |-> EpcMotAvgSSE, OutAvgSSE |-> EpcOutAvgSSE,
        OutGoalPctErr |-> EpcOutGoalPctErr, OutPredPctErr |-> EpcOutPredPctErr,
        OutGoalPctCor |-> EpcOutGoalPctCor, OutPredPctCor |-> EpcOutPredPctCor,
        MotCosDiff |-> EpcMotCosDiff, OutCosDiff |-> EpcOutCosDiff,
        OutGoalCntErr |-> OutGoalCntErrNow, OutPredCntErr |-> OutPredCntErrNow]

Accumulators ==
    [mot |-> MotSumSSE, motAvg |-> MotSumAvgSSE, motCos |-> MotSumCosDiff,
     out |-> OutSumSSE, outAvg |-> OutSumAvgSSE, outCos |-> OutSumCosDiff,
     goal |-> OutGoalCntErr, pred |-> OutPredCntErr]

\* a LogEpoch that always writes the first row
LogEpochFirstRow ==
    LET sized == SetNumRows(EpcLog, Epoch + 1)
        np == NumRowsOf(ExtReps)
        epc == Epoch
    IN /\ EpcLog' = [sized EXCEPT ![1] = EpochRow(epc, Accumulators, np)]
       /\ MotSumSSE' = 0 /\ OutSumSSE' = 0
       /\ MotSumAvgSSE' = 0 /\ OutSumAvgSSE' = 0
       /\ OutGoalCntErr' = 0 /\ OutPredCntErr' = 0
       /\ MotSumCosDiff' = 0 /\ OutSumCosDiff' = 0

\* Sim.LogEpoch: Epoch is not yet incremented
LogEpoch ==
    LET sized == SetNumRows(EpcLog, Epoch + 1)
        np == NumRowsOf(ExtReps)
        epc == Epoch
    IN /\ EpcLog' = [sized EXCEPT ![epc + 1] = EpochRow(epc, Accumulators, np)]
       /\ MotSumSSE' = 0 /\ OutSumSSE' = 0
       /\ MotSumAvgSSE' = 0 /\ OutSumAvgSSE' = 0
       /\ OutGoalCntErr' = 0 /\ OutPredCntErr' = 0
       /\ MotSumCosDiff' = 0 /\ OutSumCosDiff' = 0

\* ------------------------------------------------------------- TrainTrial
\* an entry that presents the rows in table order whatever Porder says
EnterTrialIgnoreOrder ==
    /\ Sequential \/ Trial < Len(Porder)
    /\ row' = Trial
    /\ AlphaCycle' = 0
    /\ pc' = "sub"
    /\ steps' = <<>>
    /\ presented' = Append(presented, row')
    /\ stopMid' = FALSE
    /\ curClamp0' = NoVec
    /\ calls' = <<>>
    /\ UNCHANGED <<ExtReps, Sequential, Test, other, RndSeed, accVars, netVars, schedVars,
                   msz, osz, capSz, captured, clamp0, tally, statIn, done, inits>>

\* TrainTrial's entry: the row of the trial, AlphaCycle = 0. Porder[Trial]
\* beyond the end of Porder is a run-time panic.
EnterTrial ==
    /\ IF Sequential \/ Trial < Len(Porder)
       THEN /\ row' = IF Sequential THEN Trial ELSE Porder[Trial + 1]
            /\ AlphaCycle' = 0
            /\ pc' = "sub"
            /\ presented' = Append(presented, row')
       ELSE /\ pc' = "panic"
            /\ UNCHANGED <<row, AlphaCycle, presented>>
    /\ steps' = <<>>
    /\ stopMid' = FALSE
    /\ curClamp0' = NoVec
    /\ calls' = <<>>
    /\ UNCHANGED <<ExtReps, Sequential, Test, other, RndSeed, accVars, netVars, schedVars,
                   msz, osz, capSz, captured, clamp0, tally, statIn, done, inits>>

\* a loop body that looks at the stop flag before sub-phase 1 and gives up
TrialSubStopAware ==
    /\ pc = "sub"
    /\ IF StopNow /\ AlphaCycle = 1
       THEN /\ pc' = "ret"
            /\ UNCHANGED <<netVars, steps, curClamp0, calls>>
       ELSE /\ ApplyInputs(ExtReps, row)
            /\ pc' = "relay"
            /\ steps' = steps \o << <<"apply", AlphaCycle>>, <<"settle", AlphaCycle>> >>
            /\ calls' = AlphaCyc(TRUE)
            /\ curClamp0' = IF AlphaCycle = 0
                            THEN <<SubSpace(ExtReps.Context, row),
                                   SubSpace(ExtReps.Outcome, row)>>
                            ELSE curClamp0
    /\ UNCHANGED <<ExtReps, AlphaCycle, Sequential, Test, other, StopNow, RndSeed, accVars, nng,
                   schedVars, run, localVars, presented, capSz, captured, clamp0, tally, statIn,
                   done, stopMid, sinceStop, inits>>

\* the table has the row
InTable(et, r) == r < NumRowsOf(et)

\* the head of the loop body: ApplyInputs(ExtReps, row); AlphaCyc(true).
\* For a row the table does not have, the cell ApplyInputs hands to ApplyExt
\* has no values and reading it is a run-time panic.
TrialSub ==
    /\ pc = "sub"
    /\ IF InTable(ExtReps, row)
       THEN /\ ApplyInputs(ExtReps, row)
            /\ pc' = "relay"
            /\ steps' = steps \o << <<"apply", AlphaCycle>>, <<"settle", AlphaCycle>> >>
            /\ calls' = AlphaCyc(TRUE)
            /\ curClamp0' = IF AlphaCycle = 0
                            THEN <<SubSpace(ExtReps.Context, row),
                                   SubSpace(ExtReps.Outcome, row)>>
                            ELSE curClamp0
       ELSE /\ pc' = "panic"
            /\ UNCHANGED <<netVars, steps, calls, curClamp0>>
    /\ UNCHANGED <<ExtReps, AlphaCycle, Sequential, Test, other, StopNow, RndSeed, accVars, nng,
                   schedVars, run, localVars, presented, capSz, captured, clamp0, tally, statIn,
                   done, stopMid, sinceStop, inits>>

\* a capture that gives up both writes as soon as one of the two reads fails
CaptureAndResetAllOrNothing(rd) ==
    LET cells == Cells
        stidx == row * cells
        msz0 == IF AlphaCycle = 0 THEN Len(rd.mav) ELSE 0
        osz0 == IF AlphaCycle = 0 THEN Len(rd.oav) ELSE 0
        bothOk == ~rd.errm /\ ~rd.erro
        motCap == IF AlphaCycle = 0 /\ bothOk
                  THEN WriteVals(ExtReps.Motor, stidx, rd.mav, 0)
                  ELSE ExtReps.Motor
        outCap == IF AlphaCycle = 0 /\ bothOk
                  THEN WriteVals(ExtReps.Outcome, stidx, rd.oav, 0)
                  ELSE ExtReps.Outcome
        motClr == IF AlphaCycle >= 1 THEN WriteZeros(motCap, row, msz0, 0)
                  ELSE motCap
        outClr == IF AlphaCycle >= 1 THEN WriteZeros(outCap, row, osz0, 0)
                  ELSE outCap
    IN /\ msz' = msz0
       /\ osz' = osz0
       /\ ExtReps' = [ExtReps EXCEPT !.Motor = motClr, !.Outcome = outClr]
       /\ capSz' = IF AlphaCycle = 0 THEN <<msz0, osz0>> ELSE capSz
       /\ captured' = IF AlphaCycle = 0 THEN rd ELSE captured

\* a capture that addresses the row as the reset does, at row + j
CaptureAndResetAtRow(rd) ==
    LET stidx == row
        msz0 == IF AlphaCycle = 0 THEN Len(rd.mav) ELSE 0
        osz0 == IF AlphaCycle = 0 THEN Len(rd.oav) ELSE 0
        motCap == IF AlphaCycle = 0 /\ ~rd.errm
                  THEN WriteVals(ExtReps.Motor, stidx, rd.mav, 0)
                  ELSE ExtReps.Motor
        outCap == IF AlphaCycle = 0 /\ ~rd.erro
                  THEN WriteVals(ExtReps.Outcome, stidx, rd.oav, 0)
                  ELSE ExtReps.Outcome
        motClr == IF AlphaCycle >= 1 THEN WriteZeros(motCap, row, msz0, 0)
                  ELSE motCap
        outClr == IF AlphaCycle >= 1 THEN WriteZeros(outCap, row, osz0, 0)
                  ELSE outCap
    IN /\ msz' = msz0
       /\ osz' = osz0
       /\ ExtReps' = [ExtReps EXCEPT !.Motor = motClr, !.Outcome = outClr]
       /\ capSz' = IF AlphaCycle = 0 THEN <<msz0, osz0>> ELSE capSz
       /\ captured' = IF AlphaCycle = 0 THEN rd ELSE captured

\* the capture after sub-phase 0 and the reset after sub-phase 1. msz and osz
\* are declared in the loop body, so each pass starts them at 0.
\* rd is what UnitVals("ActP") returns for Motor and for Outcome.
CaptureAndReset(rd) ==
    LET cells == Cells
        stidx == row * cells
        msz0 == IF AlphaCycle = 0 THEN Len(rd.mav) ELSE 0
        osz0 == IF AlphaCycle = 0 THEN Len(rd.oav) ELSE 0
        motCap == IF AlphaCycle = 0 /\ ~rd.errm
                  THEN WriteVals(ExtReps.Motor, stidx, rd.mav, 0)
                  ELSE ExtReps.Motor
        outCap == IF AlphaCycle = 0 /\ ~rd.erro
                  THEN WriteVals(ExtReps.Outcome, stidx, rd.oav, 0)
                  ELSE ExtReps.Outcome
        motClr == IF AlphaCycle >= 1 THEN WriteZeros(motCap, row, msz0, 0)
                  ELSE motCap
        outClr == IF AlphaCycle >= 1 THEN WriteZeros(outCap, row, osz0, 0)
                  ELSE outCap
    IN /\ msz' = msz0
       /\ osz' = osz0
       /\ ExtReps' = [ExtReps EXCEPT !.Motor = motClr, !.Outcome = outClr]
       /\ capSz' = IF AlphaCycle = 0 THEN <<msz0, osz0>> ELSE capSz
       /\ captured' = IF AlphaCycle = 0 THEN rd ELSE captured

\* a loop body whose reset does not leave the loop
TrialRelayNoBreak(rd) ==
    /\ pc = "relay"
    /\ CaptureAndReset(rd)
    /\ pc' = "stats"
    /\ steps' = Append(steps, <<IF AlphaCycle = 0 THEN "capture" ELSE "clear", AlphaCycle>>)
    /\ UNCHANGED <<AlphaCycle, Sequential, Test, other, StopNow, RndSeed, accVars, netVars,
                   schedVars, run, row, curEpc, stEpc, presented, clamp0, curClamp0, calls,
                   tally, statIn, done, stopMid, sinceStop, inits>>

\* the rest of the loop body after AlphaCyc: capture, or reset and break
TrialRelay(rd) ==
    /\ pc = "relay"
    /\ CaptureAndReset(rd)
    /\ pc' = IF AlphaCycle >= 1 THEN "statsEnd" ELSE "stats"
    /\ steps' = Append(steps, <<IF AlphaCycle = 0 THEN "capture" ELSE "clear", AlphaCycle>>)
    /\ UNCHANGED <<AlphaCycle, Sequential, Test, other, StopNow, RndSeed, accVars, netVars,
                   schedVars, run, row, curEpc, stEpc, presented, clamp0, curClamp0, calls,
                   tally, statIn, done, stopMid, sinceStop, inits>>

\* what the trials of the epoch produced, whatever the accumulators hold
Tallied(m, g, o) ==
    IF AlphaCycle = 0
    THEN [tally EXCEPT !.out = @ + m.sse, !.outAvg = @ + m.avg, !.outCos = @ + m.cos,
                       !.pred = @ + (IF m.sse # 0 THEN 1 ELSE 0),
                       !.goal = @ + (IF \E i \in 1..Len(g) : Abs(g[i] - o[i]) >= Tol
                                     THEN 1 ELSE 0)]
    ELSE [tally EXCEPT !.mot = @ + m.sse, !.motAvg = @ + m.avg, !.motCos = @ + m.cos,
                       !.n = @ + 1]

\* a TrialStats call as the properties see it: the sub-phase, the argument,
\* the engine's readings and the accumulators before the call
StatOf(accum, m, g, o) ==
    [cyc |-> AlphaCycle, accum |-> accum, m |-> m, g |-> g, o |-> o,
     before |-> Accumulators]

\* the end of the loop body: TrialStats(true); AlphaCycle++
LoopStats(m, g, o) ==
    /\ pc = "stats"
    /\ TrialStats(TRUE, m, g, o)
    /\ IF UnitFault(g, o)
       THEN /\ pc' = "panic"
            /\ UNCHANGED <<AlphaCycle, steps, tally, statIn>>
       ELSE /\ AlphaCycle' = AlphaCycle + 1
            /\ pc' = IF AlphaCycle + 1 < 2 THEN "sub" ELSE "statsEnd"
            /\ steps' = Append(steps, <<"stats", AlphaCycle, TRUE>>)
            /\ tally' = Tallied(m, g, o)
            /\ statIn' = StatOf(TRUE, m, g, o)
    /\ UNCHANGED <<ExtReps, Sequential, Test, other, StopNow, RndSeed, netVars, schedVars,
                   run, localVars, presented, capSz, captured, clamp0, curClamp0, calls, done,
                   stopMid, sinceStop, inits>>

\* after the loop: TrialStats(true)
FinalStats(m, g, o) ==
    /\ pc = "statsEnd"
    /\ TrialStats(TRUE, m, g, o)
    /\ IF UnitFault(g, o)
       THEN /\ pc' = "panic"
            /\ UNCHANGED <<steps, tally, statIn>>
       ELSE /\ pc' = "inc"
            /\ steps' = Append(steps, <<"stats", AlphaCycle, TRUE>>)
            /\ tally' = Tallied(m, g, o)
            /\ statIn' = StatOf(TRUE, m, g, o)
    /\ UNCHANGED <<ExtReps, AlphaCycle, Sequential, Test, other, StopNow, RndSeed, netVars,
                   schedVars, run, localVars, presented, capSz, captured, clamp0,
                   curClamp0, calls, done, stopMid, sinceStop, inits>>

\* an epoch boundary that keeps the order of the epoch that ended
TrialIncNoPermute ==
    /\ pc = "inc"
    /\ LET nr == NumRowsOf(ExtReps)
       IN IF Trial + 1 >= nr
          THEN /\ LogEpoch
               /\ Trial' = 0
               /\ Epoch' = Epoch + 1
               /\ UNCHANGED <<Porder, rnd>>
               /\ presented' = <<>>
               /\ done' = Append(done, [t |-> tally, a |-> Accumulators])
               /\ tally' = ZeroTally
          ELSE /\ Trial' = Trial + 1
               /\ UNCHANGED <<Epoch, Porder, rnd, EpcLog, accVars, presented,
                              done, tally>>
    /\ pc' = "ret"
    /\ statIn' = NoStat
    /\ steps' = Append(steps, <<"inc">>)
    /\ clamp0' = [clamp0 EXCEPT ![row] = curClamp0]
    /\ UNCHANGED <<ExtReps, AlphaCycle, Sequential, Test, other, StopNow, RndSeed, netVars,
                   run, localVars, capSz, captured, curClamp0, calls, stopMid, sinceStop, inits>>

\* a Trial++ that closes the epoch one trial late (Trial > nr)
TrialIncLate ==
    /\ pc = "inc"
    /\ LET nr == NumRowsOf(ExtReps)
           sh == PermuteInts(Porder, rnd)
       IN IF Trial + 1 > nr
          THEN /\ LogEpoch
               /\ Trial' = 0
               /\ Epoch' = Epoch + 1
               /\ Porder' = sh[1]
               /\ rnd' = sh[2]
               /\ presented' = <<>>
               /\ done' = Append(done, [t |-> tally, a |-> Accumulators])
               /\ tally' = ZeroTally
          ELSE /\ Trial' = Trial + 1
               /\ UNCHANGED <<Epoch, Porder, rnd, EpcLog, accVars, presented,
                              done, tally>>
    /\ pc' = "ret"
    /\ statIn' = NoStat
    /\ steps' = Append(steps, <<"inc">>)
    /\ clamp0' = [clamp0 EXCEPT ![row] = curClamp0]
    /\ UNCHANGED <<ExtReps, AlphaCycle, Sequential, Test, other, StopNow, RndSeed, netVars,
                   run, localVars, capSz, captured, curClamp0, calls, stopMid, sinceStop, inits>>

\* an epoch boundary that writes the log row and leaves Epoch as it was
TrialIncSameEpoch ==
    /\ pc = "inc"
    /\ LET nr == NumRowsOf(ExtReps)
           sh == PermuteInts(Porder, rnd)
       IN IF Trial + 1 >= nr
          THEN /\ LogEpoch
               /\ Trial' = 0
               /\ Epoch' = Epoch
               /\ Porder' = sh[1]
               /\ rnd' = sh[2]
               /\ presented' = <<>>
               /\ done' = <<>>
               /\ tally' = ZeroTally
          ELSE /\ Trial' = Trial + 1
               /\ UNCHANGED <<Epoch, Porder, rnd, EpcLog, accVars, presented,
                              done, tally>>
    /\ pc' = "ret"
    /\ statIn' = NoStat
    /\ steps' = Append(steps, <<"inc">>)
    /\ clamp0' = [clamp0 EXCEPT ![row] = curClamp0]
    /\ UNCHANGED <<ExtReps, AlphaCycle, Sequential, Test, other, StopNow, RndSeed, netVars,
                   run, localVars, capSz, captured, curClamp0, calls, stopMid, sinceStop, inits>>

\* Trial++ and, when the epoch is over, LogEpoch, Trial = 0, Epoch++,
\* PermuteInts(Porder)
TrialInc ==
    /\ pc = "inc"
    /\ LET nr == NumRowsOf(ExtReps)
           sh == PermuteInts(Porder, rnd)
       IN IF Trial + 1 >= nr
          THEN /\ LogEpoch
               /\ Trial' = 0
               /\ Epoch' = Epoch + 1
               /\ Porder' = sh[1]
               /\ rnd' = sh[2]
               /\ presented' = <<>>
               /\ done' = Append(done, [t |-> tally, a |-> Accumulators])
               /\ tally' = ZeroTally
          ELSE /\ Trial' = Trial + 1
               /\ UNCHANGED <<Epoch, Porder, rnd, EpcLog, accVars, presented,
                              done, tally>>
    /\ pc' = "ret"
    /\ statIn' = NoStat
    /\ steps' = Append(steps, <<"inc">>)
    /\ clamp0' = [clamp0 EXCEPT ![row] = curClamp0]
    /\ UNCHANGED <<ExtReps, AlphaCycle, Sequential, Test, other, StopNow, RndSeed, netVars,
                   run, localVars, capSz, captured, curClamp0, calls, stopMid, sinceStop, inits>>

\* ---------------------------------------------------- handlers and loops
Returned ==
    /\ run' = "idle"
    /\ pc' = "idle"
    /\ sinceStop' = -1
    /\ UNCHANGED <<ExtReps, AlphaCycle, Sequential, Test, other, RndSeed, accVars, netVars,
                   schedVars, localVars, histVars>>

\* the Init button
InitButton ==
    /\ run = "idle"
    /\ SimInit
    /\ presented' = <<>> /\ tally' = ZeroTally /\ done' = <<>>
    /\ clamp0' = NoRow
    /\ statIn' = NoStat
    /\ UNCHANGED <<run, pc, localVars, steps, capSz, captured, curClamp0, calls, stopMid, sinceStop>>

ClickInit == InitButton /\ UNCHANGED inits

\* the same button, pressed at most MaxInits times
ClickInitCounted ==
    /\ inits < MaxInits
    /\ InitButton
    /\ inits' = inits + 1

\* the Train button: go ss.Train()
ClickTrain ==
    /\ run = "idle"
    /\ Epoch < EpochCap
    /\ run' = "Train"
    /\ pc' = "launched"
    /\ sinceStop' = -1
    /\ UNCHANGED <<ExtReps, AlphaCycle, Sequential, Test, other, StopNow, RndSeed, accVars,
                   netVars, schedVars, localVars, histVars>>

\* one more trial entered by Train, counted once a Stop followed the launch
TrialAfterStop == IF sinceStop >= 0 THEN sinceStop + 1 ELSE sinceStop

\* Train up to its first TrainTrial: StopNow = false, stEpc := Epoch
TrainBegin ==
    /\ run = "Train" /\ pc = "launched"
    /\ StopNow' = FALSE
    /\ stEpc' = Epoch
    /\ run' = run
    /\ curEpc' = curEpc
    /\ sinceStop' = TrialAfterStop
    /\ EnterTrial

\* Train's loop after a TrainTrial returned
TrainLoop ==
    /\ run = "Train" /\ pc = "ret"
    /\ IF StopNow \/ Epoch >= MaxEpcs
       THEN Returned /\ StopNow' = StopNow
       ELSE /\ EnterTrial
            /\ sinceStop' = TrialAfterStop
            /\ UNCHANGED <<run, StopNow, curEpc, stEpc>>

\* the Step Epoch button: TrainEpoch up to its first TrainTrial
ClickStepEpoch ==
    /\ run = "idle"
    /\ Epoch < EpochCap
    /\ run' = "TrainEpoch"
    /\ curEpc' = Epoch
    /\ StopNow' = StopNow
    /\ UNCHANGED <<stEpc, sinceStop>>
    /\ EnterTrial

\* TrainEpoch's loop after a TrainTrial returned
TrainEpochLoop ==
    /\ run = "TrainEpoch" /\ pc = "ret"
    /\ IF StopNow \/ Epoch > curEpc
       THEN Returned /\ StopNow' = StopNow
       ELSE EnterTrial /\ UNCHANGED <<run, StopNow, curEpc, stEpc, sinceStop>>

\* the Step Trial button: one TrainTrial
ClickStepTrial ==
    /\ run = "idle"
    /\ Epoch < EpochCap
    /\ run' = "TrainTrial"
    /\ UNCHANGED <<StopNow, curEpc, stEpc, sinceStop>>
    /\ EnterTrial

StepTrialReturn ==
    /\ run = "TrainTrial" /\ pc = "ret"
    /\ Returned /\ StopNow' = StopNow

\* between the settle of sub-phase 0 and the one of sub-phase 1
BetweenSubPhases ==
    \/ pc \in {"relay", "stats"} /\ AlphaCycle = 0
    \/ pc = "sub" /\ AlphaCycle = 1

\* Sim.Stop, at any moment of a program that has not ended in a panic
Stop ==
    /\ pc # "panic"
    /\ StopNow' = TRUE
    /\ stopMid' = (stopMid \/ BetweenSubPhases)
    /\ sinceStop' = IF run = "Train" /\ sinceStop = -1 THEN 0 ELSE sinceStop
    /\ UNCHANGED <<ExtReps, AlphaCycle, Sequential, Test, other, RndSeed, accVars, netVars,
                   schedVars, run, pc, localVars, steps, presented, capSz, captured,
                   clamp0, curClamp0, calls, tally, statIn, done, inits>>

\* Sim.NewRndSeed: the seed becomes whatever the clock says
NewRndSeed ==
    /\ run = "idle"
    /\ RndSeed' \in Seeds
    /\ UNCHANGED <<ExtReps, AlphaCycle, Sequential, Test, other, StopNow, accVars, netVars,
                   schedVars, run, pc, localVars, histVars, sinceStop>>

\* the user edits the Test field in the struct view
SetTest ==
    /\ run = "idle"
    /\ Test' = ~Test
    /\ UNCHANGED <<ExtReps, AlphaCycle, Sequential, other, StopNow, RndSeed, accVars,
                   netVars, schedVars, run, pc, localVars, histVars, sinceStop>>

MaxCnt == 3     \* TrialStats calls made outside a trial are followed up to here

\* a call of TrialStats(false) by a caller that only wants the metrics
StatsCall(m, g, o) ==
    /\ run = "idle"
    /\ OutGoalCntErr < MaxCnt
    /\ TrialStats(FALSE, m, g, o)
    /\ statIn' = StatOf(FALSE, m, g, o)
    /\ UNCHANGED <<ExtReps, AlphaCycle, Sequential, Test, other, StopNow, RndSeed,
                   netVars, schedVars, run, pc, localVars, steps, presented, capSz,
                   captured, clamp0, curClamp0, calls, tally, done, stopMid, inits,
                   sinceStop>>

\* the locals and position of the thread that takes the steps
ThisThread == [run |-> run, pc |-> pc, row |-> row, msz |-> msz, osz |-> osz,
               curEpc |-> curEpc, stEpc |-> stEpc]

\* the scheduler lets the other thread take the next steps: the goroutine of
\* `go ss.Train()` and the window's event loop run side by side
Switch ==
    /\ run # "idle" \/ other.run # "idle"
    /\ pc # "panic" /\ other.pc # "panic"
    /\ other' = ThisThread
    /\ run' = other.run /\ pc' = other.pc /\ row' = other.row
    /\ msz' = other.msz /\ osz' = other.osz
    /\ curEpc' = other.curEpc /\ stEpc' = other.stEpc
    /\ UNCHANGED <<ExtReps, AlphaCycle, Sequential, Test, StopNow, RndSeed, accVars,
                   netVars, schedVars, histVars, sinceStop>>

\* the event loop runs one handler at a time: it is free when the thread that
\* takes the steps runs nothing and the other one runs no handler of a button
EventLoopFree == run = "idle" /\ other.run \notin {"TrainTrial", "TrainEpoch"}

\* ------------------------------------------------------- engine responses
\* (sse, avgsse, cos) the engine reports for a layer
Quiet == [sse |-> 0, avg |-> 0, cos |-> 0]       \* no activity, no target
Matched == [sse |-> 0, avg |-> 0, cos |-> 1]
Missed == [sse |-> 4, avg |-> 2, cos |-> 0]      \* one unit off by 1.0
ReadOf(mv, ov) == [mav |-> mv, errm |-> FALSE, oav |-> ov, erro |-> FALSE]

\* Spec: every handler and loop, over a network that always answers the same
SteadyReads == {ReadOf(OneHot(1), OneHot(1))}
SteadyMetrics == {Quiet}
SteadyMinus == {<<Zeros, Zeros>>}

Loops ==
    \/ TrainBegin \/ TrainLoop \/ TrainEpochLoop \/ StepTrialReturn

Next ==
    \/ ClickInit \/ ClickTrain \/ ClickStepEpoch \/ ClickStepTrial
    \/ Stop \/ NewRndSeed \/ SetTest
    \/ Loops
    \/ TrialSub
    \/ \E rd \in SteadyReads : TrialRelay(rd)
    \/ \E m \in SteadyMetrics, p \in SteadyMinus : LoopStats(m, p[1], p[2])
    \/ \E m \in SteadyMetrics, p \in SteadyMinus : FinalStats(m, p[1], p[2])
    \/ TrialInc

Spec == Init /\ [][Next]_vars

\* SpecStats: the statistics of a network whose errors vary from trial to
\* trial, stepped trial by trial, Init pressed at most MaxInits times
OutcomeStats == {<<Matched, Zeros, Zeros>>, <<Missed, Zeros, Zeros>>,
                 <<Matched, Zeros, OneHot(1)>>}
MotorStats == {Matched, Missed}

NextStats ==
    \/ ClickInitCounted \/ ClickStepTrial \/ StepTrialReturn
    \/ TrialSub
    \/ \E rd \in SteadyReads : TrialRelay(rd)
    \/ \E t \in OutcomeStats : LoopStats(t[1], t[2], t[3])
    \/ \E m \in MotorStats : FinalStats(m, Zeros, Zeros)
    \/ TrialInc

SpecStats == Init /\ [][NextStats]_vars

\* SpecRelay: the capture and the reset over a network whose produced
\* activity varies from trial to trial, stepped by trial and by epoch
ActVecs == {Zeros} \cup {OneHot(k) : k \in 1..Cells}
RelayReads == {ReadOf(mv, ov) : mv \in ActVecs, ov \in ActVecs}

NextRelay ==
    \/ ClickInit \/ ClickStepEpoch \/ ClickStepTrial
    \/ TrainEpochLoop \/ StepTrialReturn
    \/ TrialSub
    \/ \E rd \in RelayReads : TrialRelay(rd)
    \/ \E m \in SteadyMetrics, p \in SteadyMinus : LoopStats(m, p[1], p[2])
    \/ \E m \in SteadyMetrics, p \in SteadyMinus : FinalStats(m, p[1], p[2])
    \/ TrialInc

SpecRelay == Init /\ [][NextRelay]_vars

\* SpecRace: the goroutine of the Train button and the Step Trial button of
\* the event loop, over a network that always answers the same. At most one
\* Train goroutine is followed, and the two threads are followed side by side
\* for the epochs Train runs.
NextRace ==
    \/ EventLoopFree /\ other.run = "idle" /\ ClickTrain
    \/ EventLoopFree /\ ClickStepTrial
    \/ Epoch < MaxEpcs /\ Switch
    \/ TrainBegin \/ TrainLoop \/ StepTrialReturn
    \/ TrialSub
    \/ \E rd \in SteadyReads : TrialRelay(rd)
    \/ \E m \in SteadyMetrics, p \in SteadyMinus : LoopStats(m, p[1], p[2])
    \/ \E m \in SteadyMetrics, p \in SteadyMinus : FinalStats(m, p[1], p[2])
    \/ TrialInc

SpecRace == Init /\ [][NextRace]_vars

\* SpecClamp: the clamps of the two sub-phases over a network whose activity
\* varies and whose Motor or Outcome read may fail, stepped trial by trial
FailedMotorRead == [mav |-> NoVec, errm |-> TRUE, oav |-> OneHot(1), erro |-> FALSE]
FailedOutcomeRead == [mav |-> OneHot(Cells), errm |-> FALSE, oav |-> NoVec, erro |-> TRUE]
ClampReads == {ReadOf(OneHot(1), OneHot(Cells)), ReadOf(Zeros, OneHot(1)),
               FailedMotorRead, FailedOutcomeRead}

NextClamp ==
    \/ ClickStepTrial \/ StepTrialReturn
    \/ TrialSub
    \/ \E rd \in ClampReads : TrialRelay(rd)
    \/ \E m \in SteadyMetrics, p \in SteadyMinus : LoopStats(m, p[1], p[2])
    \/ \E m \in SteadyMetrics, p \in SteadyMinus : FinalStats(m, p[1], p[2])
    \/ TrialInc

SpecClamp == Init /\ [][NextClamp]_vars

\* SpecGoalErr: TrialStats over Goal and Outcome activities that differ in no
\* unit, in one unit by 0.5, in one unit by 1.0 and in every unit by 1.0,
\* called by the trials and, with accum false, between them
HalfOn(k) == [i \in 1..Cells |-> IF i = k THEN 1 ELSE 0]
AllOn == [i \in 1..Cells |-> 2]
GoalActs == {Zeros, HalfOn(1), OneHot(1), AllOn}

NextGoalErr ==
    \/ ClickStepTrial \/ StepTrialReturn
    \/ TrialSub
    \/ \E rd \in SteadyReads : TrialRelay(rd)
    \/ \E m \in SteadyMetrics, g \in GoalActs : LoopStats(m, g, Zeros)
    \/ \E m \in SteadyMetrics, p \in SteadyMinus : FinalStats(m, p[1], p[2])
    \/ TrialInc
    \/ \E m \in MotorStats, g \in GoalActs : StatsCall(m, g, Zeros)

SpecGoalErr == Init /\ [][NextGoalErr]_vars

\* SpecEmpty: the program after a load that left the pattern table as
\* authored or without rows, stepped trial by trial
EmptyExtReps == [Context |-> <<>>, Goal |-> <<>>, Motor |-> <<>>, Outcome |-> <<>>]

InitAnyStore == Loaded(AuthoredExtReps) \/ Loaded(EmptyExtReps)

NextEmpty ==
    \/ ClickInit \/ ClickStepTrial \/ StepTrialReturn
    \/ TrialSub
    \/ \E rd \in SteadyReads : TrialRelay(rd)
    \/ \E m \in SteadyMetrics, p \in SteadyMinus : LoopStats(m, p[1], p[2])
    \/ \E m \in SteadyMetrics, p \in SteadyMinus : FinalStats(m, p[1], p[2])
    \/ TrialInc

SpecEmpty == InitAnyStore /\ [][NextEmpty]_vars

\* SpecUnits: the program over a network whose Goal layer has one unit fewer
\* than, as many as, or one unit more than the Outcome layer, stepped trial
\* by trial
GoalSizes == {Cells - 1, Cells, Cells + 1}

InitAnyUnits == \E n \in GoalSizes : Built(AuthoredExtReps, n)

\* the ActM of a layer of n units: none active, or the last one
UnitActs(n) == {[i \in 1..n |-> 0], [i \in 1..n |-> IF i = n THEN 2 ELSE 0]}

NextUnits ==
    \/ ClickStepTrial \/ StepTrialReturn
    \/ TrialSub
    \/ \E rd \in SteadyReads : TrialRelay(rd)
    \/ \E m \in SteadyMetrics, g \in UnitActs(nng), o \in UnitActs(Cells) :
          LoopStats(m, g, o)
    \/ \E m \in SteadyMetrics, g \in UnitActs(nng), o \in UnitActs(Cells) :
          FinalStats(m, g, o)
    \/ TrialInc

SpecUnits == InitAnyUnits /\ [][NextUnits]_vars

\* SpecLive: Train and Step Trial with Stop at any moment, over a network
\* that always answers the same. The goroutine of `go ss.Train()` and the
\* handler of Step Trial are scheduled and every settle ends, so the thread
\* that runs a handler keeps taking its steps: weak fairness on TrainSteps.
\* The clicks and Stop are the user's and are under no fairness.
TrainSteps ==
    \/ TrainBegin \/ TrainLoop \/ StepTrialReturn
    \/ TrialSub
    \/ \E rd \in SteadyReads : TrialRelay(rd)
    \/ \E m \in SteadyMetrics, p \in SteadyMinus : LoopStats(m, p[1], p[2])
    \/ \E m \in SteadyMetrics, p \in SteadyMinus : FinalStats(m, p[1], p[2])
    \/ TrialInc

NextLive == ClickTrain \/ ClickStepTrial \/ Stop \/ TrainSteps

SpecLive == Init /\ [][NextLive]_vars /\ WF_vars(TrainSteps)

\* SpecMix: the sums over a network whose metrics vary from trial to trial,
\* stepped trial by trial from the loaded program
NextMix ==
    \/ ClickStepTrial \/ StepTrialReturn
    \/ TrialSub
    \/ \E rd \in SteadyReads : TrialRelay(rd)
    \/ \E t \in OutcomeStats : LoopStats(t[1], t[2], t[3])
    \/ \E m \in MotorStats : FinalStats(m, Zeros, Zeros)
    \/ TrialInc

SpecMix == Init /\ [][NextMix]_vars

\* SpecPhase: the capture of sub-phase 0 next to the minus-phase activity of
\* the same settle. The engine keeps ActM and ActP per unit: the capture
\* reads ActP (UnitVals("ActP")), TrialStats reads ActM.
PhaseReads == {ReadOf(OneHot(1), ov) : ov \in ActVecs}

NextPhase ==
    \/ ClickStepTrial \/ StepTrialReturn
    \/ TrialSub
    \/ \E rd \in PhaseReads : TrialRelay(rd)
    \/ \E m \in SteadyMetrics, o \in ActVecs : LoopStats(m, Zeros, o)
    \/ \E m \in SteadyMetrics, p \in SteadyMinus : FinalStats(m, p[1], p[2])
    \/ TrialInc

SpecPhase == Init /\ [][NextPhase]_vars

\* ================================================================ claims
InFlightPcs == {"sub", "relay", "stats", "statsEnd", "inc"}

FullTrial ==
    << <<"apply", 0>>, <<"settle", 0>>, <<"capture", 0>>, <<"stats", 0, TRUE>>,
       <<"apply", 1>>, <<"settle", 1>>, <<"clear", 1>>, <<"stats", 1, TRUE>>,
       <<"inc">> >>

IsPrefix(s, t) == Len(s) <= Len(t) /\ SubSeq(t, 1, Len(s)) = s

\* C1: a TrainTrial does apply, settle, capture, stats(accumulate) for
\* sub-phase 0, then apply, settle, clear, stats(accumulate) for sub-phase 1,
\* then the Trial increment: each once, in this order. What a trial in
\* progress has done is a prefix of that list, and a returned trial did all.
C1_TrialStepsInOrder ==
    /\ IsPrefix(steps, FullTrial)
    /\ pc \in InFlightPcs => Len(steps) < Len(FullTrial)
    /\ pc = "ret" => steps = FullTrial

C1_Witness == pc = "ret" /\ steps = FullTrial /\ run = "Train"

\* C4: a Stop that arrives between the two sub-phases of a trial does not keep
\* the trial from finishing: when the trial returns, all its steps were done,
\* Trial was incremented and, if it closed the epoch, the log row is written;
\* the flag is still set for the loop to see.
C4_StopNeverSplitsTrial ==
    (pc = "ret" /\ stopMid) =>
        /\ steps = FullTrial
        /\ StopNow
        /\ Trial = Len(presented)
        /\ presented = <<>> =>
              /\ Epoch >= 1
              /\ Len(EpcLog) = Epoch
              /\ EpcLog[Epoch].Epoch = Epoch - 1

C4_Witness ==
    pc = "ret" /\ stopMid /\ presented = <<>> /\ run \in {"Train", "TrainEpoch"}

\* C8: the log has one row per epoch completed since Init, row i holds epoch
\* i, and a step other than Init keeps every row it finds and adds a row
\* exactly when it completes an epoch.
C8_LogAppendOnly ==
    /\ [](/\ Len(EpcLog) = Epoch
          /\ \A i \in 1..Len(EpcLog) : EpcLog[i].Epoch = i - 1)
    /\ [][ClickInit \/
          /\ \A i \in 1..Len(EpcLog) : i <= Len(EpcLog') /\ EpcLog'[i] = EpcLog[i]
          /\ Len(EpcLog') = IF Epoch' = Epoch + 1 THEN Len(EpcLog) + 1
                            ELSE Len(EpcLog)]_vars

C8_Witness == Len(EpcLog) = 2 /\ pc = "ret"

IsPermutation(p, n) == Len(p) = n /\ {p[i] : i \in 1..n} = 0..(n - 1)

\* C9: Porder is always a permutation of the rows; the rows presented since
\* the epoch began are Porder's first entries (the first row numbers when
\* Sequential), one per trial, so the last trial of an epoch completes a
\* presentation of every row exactly once.
C9_PresentationOrder ==
    /\ IsPermutation(Porder, NumRowsOf(ExtReps))
    /\ Len(presented) = IF pc \in InFlightPcs THEN Trial + 1 ELSE Trial
    /\ \A i \in 1..Len(presented) :
          presented[i] = IF Sequential THEN i - 1 ELSE Porder[i]
    /\ (pc = "inc" /\ Trial + 1 = NumRowsOf(ExtReps)) =>
          /\ Len(presented) = NumRowsOf(ExtReps)
          /\ {presented[i] : i \in 1..Len(presented)} = 0..(NumRowsOf(ExtReps) - 1)

C9_Witness ==
    /\ pc = "inc" /\ Trial + 1 = NumRowsOf(ExtReps)
    /\ ~Sequential
    /\ \E i \in 1..Len(Porder) : Porder[i] # i - 1

\* C2: right after the reset step of sub-phase 1 on row r, every Motor and
\* Outcome cell the capture of this trial wrote (row*cells .. row*cells +
\* size - 1, size as recorded at the capture) holds 0.
C2_ResetZeroesCaptured ==
    (pc = "statsEnd" /\ AlphaCycle = 1) =>
        /\ \A j \in 0..(capSz[1] - 1) : ExtReps.Motor[row * Cells + j + 1] = 0
        /\ \A j \in 0..(capSz[2] - 1) : ExtReps.Outcome[row * Cells + j + 1] = 0

\* C3: the Context and Outcome vectors clamped in sub-phase 0 of a row's
\* trial equal those clamped in sub-phase 0 of the same row's trial one
\* epoch earlier.
C3_SameClampEveryEpoch ==
    (curClamp0 # NoVec /\ clamp0[row] # NoVec) => curClamp0 = clamp0[row]

\* C5: every log row holds in OutSSE the sub-phase-0 outcome SSE of exactly
\* the N trials of its epoch, summed and divided by N, and in MotSSE the
\* same of their sub-phase-1 motor SSE.
C5_RowIsEpochMean ==
    \A i \in 1..Len(EpcLog) :
        /\ done[i].t.n = NumRows
        /\ SameQuot(EpcLog[i].OutSSE, <<done[i].t.out, NumRows>>)
        /\ SameQuot(EpcLog[i].MotSSE, <<done[i].t.mot, NumRows>>)

InUnitInterval(q) == 0 <= q[1] /\ q[1] <= q[2]

\* C6: every log row holds in OutPredPctErr the number of its epoch's trials
\* with a nonzero sub-phase-0 outcome SSE divided by N, and in OutGoalPctErr
\* the number of its trials with a goal-vs-outcome mismatch divided by N;
\* both lie in [0, 1].
C6_RowErrorRates ==
    \A i \in 1..Len(EpcLog) :
        /\ SameQuot(EpcLog[i].OutPredPctErr, <<done[i].t.pred, NumRows>>)
        /\ SameQuot(EpcLog[i].OutGoalPctErr, <<done[i].t.goal, NumRows>>)
        /\ InUnitInterval(EpcLog[i].OutPredPctErr)
        /\ InUnitInterval(EpcLog[i].OutGoalPctErr)

\* C7: every log row holds in OutGoalCntErr and OutPredCntErr the values the
\* two counters had when LogEpoch was called, before it reset them.
C7_RowRawCounts ==
    \A i \in 1..Len(EpcLog) :
        /\ EpcLog[i].OutGoalCntErr = done[i].a.goal
        /\ EpcLog[i].OutPredCntErr = done[i].a.pred

\* the presentation order and generator state e epochs after Init with seed
RECURSIVE OrderAfter(_, _)
OrderAfter(seed, e) ==
    IF e = 0
    THEN LET pr == RandPerm(NumRows, SeedRnd(seed)) IN <<pr[1], NextRnd(pr[2])>>
    ELSE LET prev == OrderAfter(seed, e - 1) IN PermuteInts(prev[1], prev[2])

\* the log a run started by Init on a newly made Sim writes for the responses
\* this run met
FreshLog == [i \in 1..Len(done) |-> EpochRow(i - 1, done[i].t, NumRows)]

\* C10: a run started by Init has the presentation orders and the log table
\* of every other run started with the same seed that meets the same network
\* responses, a run on a newly made Sim among them.
C10_SameAsFreshRun ==
    /\ Porder = OrderAfter(RndSeed, Epoch)[1]
    /\ EpcLog = FreshLog

\* C11: once Stop was called after the Train button launched Train (before
\* the goroutine's first statement included), Train enters no further trial:
\* it completes at most the trial in flight and returns.
C11_StopAfterLaunchIsSeen == sinceStop <= 0

\* C12: at most one TrainTrial is in progress at any moment, whatever the
\* order in which Train in the background and the buttons of the window are
\* run.
C12_OneTrialInFlight == ~(pc \in InFlightPcs /\ other.pc \in InFlightPcs)

\* C13: Train runs a trial only while Epoch < MaxEpcs: a Train called with
\* Epoch >= MaxEpcs has no trial in progress at any time, so it leaves Trial,
\* Epoch, the pattern table, the sums and the log as they were.
C13_TrainRespectsMaxEpcs ==
    (run = "Train" /\ pc \in InFlightPcs) => stEpc < MaxEpcs

\* C14: whenever TrainEpoch returns, Epoch is one more than at the call,
\* Trial is 0 and the log has the row of the epoch that was in progress,
\* also when Stop is called during the call or the flag was left set.
C14_TrainEpochFinishesEpoch ==
    [][(run = "TrainEpoch" /\ run' = "idle") =>
          /\ Epoch = curEpc + 1
          /\ Trial = 0
          /\ Len(EpcLog) = Epoch
          /\ EpcLog[Epoch].Epoch = curEpc]_vars

Count(seq, x) == Cardinality({i \in 1..Len(seq) : seq[i] = x})

\* the last QuarterFinal call of a settle and its two learning calls
LastQuarterFinal(seq) ==
    CHOOSE i \in 1..Len(seq) :
        seq[i] = "QuarterFinal" /\ \A j \in (i + 1)..Len(seq) : seq[j] # "QuarterFinal"

\* C15: in the settle of every sub-phase, with Test set neither DWt nor
\* WtFmDWt is called; with Test clear each is called exactly once, DWt then
\* WtFmDWt, after the fourth QuarterFinal.
C15_TestFlagHonoured ==
    pc = "relay" =>
        IF Test
        THEN Count(calls, "DWt") = 0 /\ Count(calls, "WtFmDWt") = 0
        ELSE /\ Count(calls, "DWt") = 1 /\ Count(calls, "WtFmDWt") = 1
             /\ Count(calls, "QuarterFinal") = 4
             /\ calls[LastQuarterFinal(calls) + 1] = "DWt"
             /\ calls[LastQuarterFinal(calls) + 2] = "WtFmDWt"

\* C16: once sub-phase 1 of a trial has applied its inputs, Goal is clamped
\* to the Outcome activity and Motor to the Motor activity that the capture
\* of the same trial read, provided both reads succeeded.
C16_ClampIsCaptured ==
    (pc = "relay" /\ AlphaCycle = 1 /\ ~captured.errm /\ ~captured.erro) =>
        /\ ext.Goal = captured.oav
        /\ ext.Motor = captured.mav

C16_Witness ==
    /\ pc = "relay" /\ AlphaCycle = 1 /\ row = 1
    /\ ~captured.errm /\ ~captured.erro
    /\ captured.oav # AuthoredOutcome(row) /\ captured.oav # Zeros
    /\ captured.mav # Zeros
    /\ ext.Goal = captured.oav

\* C17: once ApplyInputs has run, in sub-phase 0 Goal and Motor are hidden,
\* Outcome is target and only Context and Outcome have an external vector,
\* the row's; in sub-phase 1 Goal is input, Motor is target, Outcome is hidden
\* and only Goal and Motor have one, the row's Outcome and Motor cells.
C17_ClampsBySubPhase ==
    pc = "relay" =>
        IF AlphaCycle = 0
        THEN /\ layTyp.Goal = "Hidden" /\ layTyp.Motor = "Hidden"
             /\ layTyp.Outcome = "Target"
             /\ ext.Context = SubSpace(ExtReps.Context, row)
             /\ ext.Outcome = SubSpace(ExtReps.Outcome, row)
             /\ ext.Goal = NoVec /\ ext.Motor = NoVec
        ELSE /\ layTyp.Goal = "Input" /\ layTyp.Motor = "Target"
             /\ layTyp.Outcome = "Hidden"
             /\ ext.Goal = SubSpace(ExtReps.Outcome, row)
             /\ ext.Motor = SubSpace(ExtReps.Motor, row)
             /\ ext.Context = NoVec /\ ext.Outcome = NoVec

C17_Witness ==
    /\ pc = "relay" /\ AlphaCycle = 1
    /\ curClamp0 # NoVec
    /\ ext.Context = NoVec /\ ext.Outcome = NoVec /\ ext.Goal # NoVec

\* the units whose Goal and Outcome activities differ by more than tol, and
\* by tol or more
UnitsAbove(g, o) == {i \in 1..Len(g) : Abs(g[i] - o[i]) > Tol}
UnitsNotBelow(g, o) == {i \in 1..Len(g) : Abs(g[i] - o[i]) >= Tol}

C19_NoAccumIsFrame ==
    (statIn # NoStat /\ ~statIn.accum) => Accumulators = statIn.before

\* C20: with a pattern table without rows the run goes on without a fault,
\* and the first TrainTrial returns at an epoch boundary: Epoch incremented,
\* Trial 0, Sequential or not.
C20_EmptyStoreRuns ==
    NumRowsOf(ExtReps) = 0 =>
        /\ pc # "panic"
        /\ pc = "ret" => (Trial = 0 /\ Epoch >= 1)

\* the step of a trial that captures: the loop body of sub-phase 0 after the
\* settle
IsCapture == pc = "relay" /\ AlphaCycle = 0 /\ pc' = "stats"

C24_OnlyRowCellsChange ==
    [][/\ ExtReps'.Context = ExtReps.Context
       /\ ExtReps'.Goal = ExtReps.Goal
       /\ \A r \in RowIds \ {row} :
            /\ SubSpace(ExtReps'.Motor, r) = SubSpace(ExtReps.Motor, r)
            /\ SubSpace(ExtReps'.Outcome, r) = SubSpace(ExtReps.Outcome, r)
       /\ Len(ExtReps'.Motor) = Len(ExtReps.Motor)
       /\ Len(ExtReps'.Outcome) = Len(ExtReps.Outcome)]_vars

C24_Witness ==
    /\ pc = "ret" /\ row = NumRows - 1
    /\ SubSpace(ExtReps.Motor, row) # Zeros
    /\ \A r \in RowIds \ {row} :
         /\ SubSpace(ExtReps.Motor, r) = Zeros
         /\ SubSpace(ExtReps.Outcome, r) = AuthoredOutcome(r)
    /\ ExtReps.Context = AuthoredExtReps.Context
    /\ ExtReps.Goal = AuthoredExtReps.Goal

\* C22: a Goal layer and an Outcome layer of different sizes do not stop the
\* run, whichever is larger: no trial faults and every trial that returns
\* went through both sub-phases.
C22_UnitMismatchIsNotFatal ==
    nng # Cells =>
        /\ pc # "panic"
        /\ pc = "ret" => steps = FullTrial

\* C23: the Outcome value the capture wrote to the row's cell is the
\* activity the Outcome layer settled to in the minus phase of sub-phase 0
\* (the ActM that TrialStats of the same sub-phase reads).
C23_CaptureIsMinusPhase ==
    (pc = "sub" /\ AlphaCycle = 1 /\ statIn # NoStat /\ statIn.cyc = 0
        /\ captured # NoRead /\ ~captured.erro) =>
        SubSpace(ExtReps.Outcome, row) = statIn.o

\* the three motor sums and the three outcome sums with the two counters
MotorSums(a) == <<a.mot, a.motAvg, a.motCos>>
OutcomeSums(a) == <<a.out, a.outAvg, a.outCos, a.goal, a.pred>>

\* C25: the TrialStats of sub-phase 0 adds its metrics to the outcome sums
\* and leaves the motor sums as they were, the TrialStats of sub-phase 1 adds
\* its metrics to the motor sums and leaves the outcome sums and the two
\* counters as they were, and a trial makes each of the two calls once.
C25_SumsNotMixed ==
    /\ (statIn # NoStat /\ statIn.cyc = 0) =>
          /\ MotorSums(Accumulators) = MotorSums(statIn.before)
          /\ OutSumSSE = statIn.before.out + statIn.m.sse
          /\ OutSumAvgSSE = statIn.before.outAvg + statIn.m.avg
          /\ OutSumCosDiff = statIn.before.outCos + statIn.m.cos
    /\ (statIn # NoStat /\ statIn.cyc = 1) =>
          /\ OutcomeSums(Accumulators) = OutcomeSums(statIn.before)
          /\ MotSumSSE = statIn.before.mot + statIn.m.sse
          /\ MotSumAvgSSE = statIn.before.motAvg + statIn.m.avg
          /\ MotSumCosDiff = statIn.before.motCos + statIn.m.cos
    /\ pc = "inc" =>
          /\ Count(steps, <<"stats", 0, TRUE>>) = 1
          /\ Count(steps, <<"stats", 1, TRUE>>) = 1

C25_Witness ==
    /\ pc = "inc" /\ statIn # NoStat /\ statIn.cyc = 1
    /\ statIn.m.sse # 0 /\ statIn.before.out # 0 /\ statIn.before.mot # 0
    /\ OutSumSSE = statIn.before.out
    /\ MotSumSSE = statIn.before.mot + statIn.m.sse

\* the step that ends a trial
IsTrialEnd == pc = "inc" /\ pc' = "ret"

\* C26: the trial that completes an epoch writes the log row under the Epoch
\* it had on entry, sets Trial to 0, adds 1 to Epoch and re-permutes Porder;
\* Porder is changed by nothing but Init and this step, and a trial that does
\* not complete an epoch leaves Porder, Epoch and the epoch log as they were.
C26_EpochBoundaryOrder ==
    [][\/ /\ IsTrialEnd /\ Trial + 1 >= NumRowsOf(ExtReps)
          /\ Len(EpcLog') = Epoch + 1
          /\ EpcLog'[Epoch + 1].Epoch = Epoch
          /\ \A i \in 1..Epoch : EpcLog'[i] = EpcLog[i]
          /\ Trial' = 0
          /\ Epoch' = Epoch + 1
          /\ Porder' = PermuteInts(Porder, rnd)[1]
       \/ /\ pc = "idle" /\ pc' = "idle" /\ Epoch' = 0 /\ Trial' = 0
          /\ Porder' = RandPerm(NumRowsOf(ExtReps), SeedRnd(RndSeed))[1]
       \/ UNCHANGED <<Porder, Epoch, EpcLog>>]_vars

C26_Witness ==
    /\ pc = "ret" /\ Trial = 0 /\ Epoch = 1 /\ Len(EpcLog) = 1
    /\ EpcLog[1].Epoch = 0
    /\ inits = 0 /\ RndSeed = 1
    /\ Porder # RandPerm(NumRows, SeedRnd(1))[1]

\* C27: between trials Trial is at least 0, below the number of rows, and
\* equal to the number of trials made since the last epoch boundary or Init;
\* a trial either adds 1 to Trial or, as the last of its epoch, sets Trial to
\* 0 and adds 1 to Epoch.
C27_TrialCountsTheEpoch ==
    /\ [](pc \in {"idle", "launched", "ret"} =>
            /\ 0 <= Trial /\ Trial < NumRows
            /\ Trial = Len(presented))
    /\ [][IsTrialEnd =>
            \/ Trial' = Trial + 1 /\ Epoch' = Epoch
            \/ Trial = NumRows - 1 /\ Trial' = 0 /\ Epoch' = Epoch + 1]_vars

C27_Witness ==
    /\ pc = "ret" /\ run = "Train" /\ Epoch = 1 /\ Trial = NumRows - 1
    /\ Len(presented) = NumRows - 1

\* C28: every Train call returns, Stop pressed or not; and once StopNow is
\* set after Train's start, it stays set and Train enters no further trial:
\* it returns when the trial in flight has returned.
C28_TrainTerminates ==
    /\ (run = "Train") ~> (run = "idle")
    /\ [][(run = "Train" /\ pc # "launched" /\ StopNow) =>
            /\ StopNow'
            /\ pc = "ret" => (run' = "idle" \/ UNCHANGED <<run, pc>>)]_vars

C28_Witness ==
    /\ run = "Train" /\ pc = "ret" /\ stEpc = 0 /\ Epoch = MaxEpcs
    /\ ~StopNow /\ sinceStop = -1
    /\ Len(done) = MaxEpcs

====
